---- MODULE Spec2Model ----
(***************************************************************************)
(* lmap: the resource inventory (nodes -> NUMA domains -> slots) and the   *)
(* three-phase placement solver ProcMap::map of src/src/map.rs, driven by  *)
(* the JobList of src/src/joblist.rs, followed by the launcher-file        *)
(* emitter ProcMap::to_slurm.                                              *)
(*                                                                         *)
(* The solver is modelled one loop iteration at a time: every action is    *)
(* one iteration of one of the loops of ProcMap::map or of                 *)
(* ProcMap::map_for_defined_size (one acquisition attempt), so that every  *)
(* intermediate inventory the program goes through is a state.             *)
(*                                                                         *)
(* SpecMain is the whole of main (src/src/main.rs): the probe output_map,  *)
(* the discovery through srun, the build of the inventory by               *)
(* ProcMap::init, the load of the job file by JobList::load with           *)
(* Job::parse on placement strings kept as sequences of characters, the    *)
(* solver, the emitter and the final launch.                               *)
(*                                                                         *)
(* Conventions                                                             *)
(*  - Option<u32> Slot.job: None is NoJob (-1), Some(k) is k.              *)
(*  - Option<String> JobEntry.loc: None is NoLoc.                          *)
(*  - HashMap iteration order is fixed for one ProcMap (the maps are not   *)
(*    modified after ProcMap::init); it is the order of the sequences      *)
(*    below, and Init ranges over every shape, hence every order.          *)
(*  - usize number_to_alloc is kept as its signed residue modulo 2^64: a   *)
(*    value v < 0 stands for 2^64 + v (TLC's integers are 32 bits wide).   *)
(*    A subtraction that overflows panics in a build with overflow checks  *)
(*    and wraps in a build without: both outcomes are modelled.            *)
(***************************************************************************)
EXTENDS Integers, Sequences, FiniteSets, TLC

\* ------------------------------------------------------------- bounds
MaxNodes == 2
MaxSlots == 4
MaxJobs == 2
MaxOrder == 3
MaxPreJobs == 1
MaxAllJobs == 2
MaxNumaNodes == 2
MaxLines == 2
MaxFileJobs == 2
MaxLiveSlots == 2

\* ---------------------------------------------------------- constants
NoJob == -1
NoLoc == "<none>"
Locs == {"numa", "slot", "node"}
Hosts == <<"h1", "h2", "h3", "h4">>
Commands == <<"a", "b", "c", "d", "e">>
DecStr == <<"0", "1", "2", "3", "4", "5", "6", "7">>
TooBig == "99999999999999999999"
NotExited == -1
ExitStatuses == {0, 1}
Half == 65536
MinI32 == (-2147483647) - 1
MaxI32 == 2147483647
RankValues == {0, 1, -1, -2, MinI32, MaxI32}
Digit10 == <<"0", "1", "2", "3", "4", "5", "6", "7", "8", "9">>

VARIABLES
    nodes,            \* ProcMap.nodes: Seq of Node
    jobs,             \* JobList.jobs: Seq of JobEntry
    pc,               \* position in ProcMap::map / map_for_defined_size / main
    status,           \* "running", "ok" (map returned Ok), "error" (Err), "panic"
    err,              \* the anyhow error / panic raised
    cur,              \* index in jobs of the job the current loop is at (0: none yet)
    idx,              \* position of the container iterator (each_numa, each_node, each_slot)
    level,            \* map_for_defined_size: level
    size,             \* map_for_defined_size: size
    jobid,            \* map_for_defined_size: jobid
    on_each,          \* map_for_defined_size: on_each
    ret,              \* the loop of ProcMap::map that map_for_defined_size returns to
    number_to_alloc,  \* map_for_defined_size: number_to_alloc
    did_alloc,        \* map_for_defined_size: did_alloc
    remaining_slots,  \* ProcMap::map: remaining_slots
    quantum,          \* ProcMap::map: quantum
    rest,             \* ProcMap::map: rest
    is_first,         \* ProcMap::map: is_first
    file,             \* the multi-program file written by to_slurm
    args,             \* main: Args (map, display, job)
    environ,          \* output_map: PMI_RANK and PMIX_RANK in the environment of the probe
    topology,         \* output_map: the NUMA nodes hwloc shows to the probe
    srun,             \* the launcher: the exit statuses of its two runs
    reports,          \* ProcMap::init: the JobDescs discovery returned
    jobfile,          \* what the job file given on the command line held when it was read
    launched,         \* the launcher processes spawned so far, in order
    printed,          \* what output_map printed on stdout
    exit_code         \* the exit code of the process (NotExited while it runs)

vars == <<nodes, jobs, pc, status, err, cur, idx, level, size, jobid, on_each, ret,
          number_to_alloc, did_alloc, remaining_slots, quantum, rest, is_first, file,
          args, environ, topology, srun, reports, jobfile, launched, printed, exit_code>>

\* What pmap.map and pmap.to_slurm neither read nor write.
main_vars == <<args, environ, topology, srun, reports, jobfile, launched, printed, exit_code>>

walk_vars == <<level, size, jobid, on_each, ret, number_to_alloc, did_alloc>>
all_vars == <<remaining_slots, quantum, rest, is_first>>

\* ---------------------------------------------------------- sequences
RECURSIVE Flatten(_)
Flatten(ss) == IF ss = <<>> THEN <<>> ELSE Head(ss) \o Flatten(Tail(ss))

RECURSIVE SumSeq(_)
SumSeq(s) == IF s = <<>> THEN 0 ELSE Head(s) + SumSeq(Tail(s))

\* ------------------------------------------------------------- Slot
Slot_is_free(s) == s.job = NoJob

\* Mutant: acquire without the `if self.job.is_some()` test.
Slot_acquire_overwrite(s, id) ==
    [ok |-> TRUE, slot |-> [s EXCEPT !.job = id], err |-> [kind |-> "none", arg |-> 0]]

Slot_acquire(s, id) ==
    IF s.job # NoJob
    THEN [ok |-> FALSE, slot |-> s, err |-> [kind |-> "JobAlreadyTaken", arg |-> 0]]
    ELSE [ok |-> TRUE, slot |-> [s EXCEPT !.job = id], err |-> [kind |-> "none", arg |-> 0]]

\* ------------------------------------------------------------- Numa
\* Mutant: the slots are scanned from the last one.
FirstFree_last(slots) ==
    IF \E i \in 1..Len(slots) : Slot_is_free(slots[i])
    THEN CHOOSE i \in 1..Len(slots) :
            /\ Slot_is_free(slots[i])
            /\ \A k \in (i + 1)..Len(slots) : ~Slot_is_free(slots[k])
    ELSE 0

FirstFree(slots) ==
    IF \E i \in 1..Len(slots) : Slot_is_free(slots[i])
    THEN CHOOSE i \in 1..Len(slots) :
            /\ Slot_is_free(slots[i])
            /\ \A k \in 1..(i - 1) : ~Slot_is_free(slots[k])
    ELSE 0

\* Mutant: no `return Ok(())` after the first acquisition: every free slot is taken.
Numa_acquire_all(numa, id) ==
    IF FirstFree(numa.slots) = 0
    THEN [ok |-> FALSE, numa |-> numa, err |-> [kind |-> "NoFreeSlotOnNuma", arg |-> numa.id]]
    ELSE [ok |-> TRUE,
          numa |-> [numa EXCEPT !.slots = [s \in 1..Len(@) |->
                        IF Slot_is_free(@[s]) THEN Slot_acquire(@[s], id).slot ELSE @[s]]],
          err |-> [kind |-> "none", arg |-> 0]]

Numa_acquire(numa, id) ==
    LET i == FirstFree(numa.slots)
    IN  IF i = 0
        THEN [ok |-> FALSE, numa |-> numa, err |-> [kind |-> "NoFreeSlotOnNuma", arg |-> numa.id]]
        ELSE [ok |-> TRUE,
              numa |-> [numa EXCEPT !.slots[i] = Slot_acquire(@, id).slot],
              err |-> [kind |-> "none", arg |-> 0]]

\* ------------------------------------------------------------- Node
FirstNumaWithRoom(numas, id) ==
    IF \E k \in 1..Len(numas) : Numa_acquire(numas[k], id).ok
    THEN CHOOSE k \in 1..Len(numas) :
            /\ Numa_acquire(numas[k], id).ok
            /\ \A m \in 1..(k - 1) : ~Numa_acquire(numas[m], id).ok
    ELSE 0

\* Mutant: Ok(()) instead of Err when no NUMA domain of the node has room.
Node_acquire_silent(node, id) ==
    LET k == FirstNumaWithRoom(node.numas, id)
    IN  IF k = 0
        THEN [ok |-> TRUE, node |-> node, err |-> [kind |-> "none", arg |-> 0]]
        ELSE [ok |-> TRUE,
              node |-> [node EXCEPT !.numas[k] = Numa_acquire(@, id).numa],
              err |-> [kind |-> "none", arg |-> 0]]

Node_acquire(node, id) ==
    LET k == FirstNumaWithRoom(node.numas, id)
    IN  IF k = 0
        THEN [ok |-> FALSE, node |-> node, err |-> [kind |-> "NoFreeSlotOnNode", arg |-> node.host]]
        ELSE [ok |-> TRUE,
              node |-> [node EXCEPT !.numas[k] = Numa_acquire(@, id).numa],
              err |-> [kind |-> "none", arg |-> 0]]

\* ---------------------------------------------------------- ProcMap
\* The iterators, as the sequences of the paths of what they yield.
each_node(ns) == [i \in 1..Len(ns) |-> <<i>>]

each_numa(ns) ==
    Flatten([i \in 1..Len(ns) |-> [k \in 1..Len(ns[i].numas) |-> <<i, k>>]])

each_slot(ns) ==
    Flatten([i \in 1..Len(ns) |->
        Flatten([k \in 1..Len(ns[i].numas) |->
            [s \in 1..Len(ns[i].numas[k].slots) |-> <<i, k, s>>]])])

SlotAt(ns, p) == ns[p[1]].numas[p[2]].slots[p[3]]

count_free_slots(ns) ==
    LET es == each_slot(ns)
    IN  Cardinality({i \in 1..Len(es) : Slot_is_free(SlotAt(ns, es[i]))})

\* Mutant: the "node" walk iterates over each_numa.
Targets_node_by_numa(ns, lvl) ==
    CASE lvl = "numa" -> each_numa(ns)
      [] lvl = "node" -> each_numa(ns)
      [] lvl = "slot" -> each_slot(ns)
      [] OTHER -> <<>>

\* The containers a locality level walks over.
Targets(ns, lvl) ==
    CASE lvl = "numa" -> each_numa(ns)
      [] lvl = "node" -> each_node(ns)
      [] lvl = "slot" -> each_slot(ns)
      [] OTHER -> <<>>

\* acquire(id) on the container at path p of level lvl: [ok, nodes, err].
AcquireAt(ns, lvl, p, id) ==
    CASE lvl = "numa" ->
            LET r == Numa_acquire(ns[p[1]].numas[p[2]], id)
            IN  [ok |-> r.ok, nodes |-> [ns EXCEPT ![p[1]].numas[p[2]] = r.numa], err |-> r.err]
      [] lvl = "node" ->
            LET r == Node_acquire(ns[p[1]], id)
            IN  [ok |-> r.ok, nodes |-> [ns EXCEPT ![p[1]] = r.node], err |-> r.err]
      [] OTHER ->
            LET r == Slot_acquire(SlotAt(ns, p), id)
            IN  [ok |-> r.ok,
                 nodes |-> [ns EXCEPT ![p[1]].numas[p[2]].slots[p[3]] = r.slot],
                 err |-> r.err]

\* ---------------------------------------------------------- JobList
is_each(j) == j.order = "E"
is_all(j) == j.order = "A"
is_fixed(j) == (j.order # "A") /\ (j.order # "E")

\* Mutant: the filter of each_jobs lets the fixed-count jobs through.
each_jobs_not_all(js) == {i \in 1..Len(js) : js[i].order # "A"}

\* The filtered iterators of the JobList, as the positions they yield in order.
each_jobs(js) == {i \in 1..Len(js) : is_each(js[i])}
all_jobs(js) == {i \in 1..Len(js) : is_all(js[i])}
fixed_jobs(js) == {i \in 1..Len(js) : is_fixed(js[i])}

\* The next element of a filtered iterator after position from (0: exhausted).
NextJob(iter, from) ==
    IF \E i \in iter : i > from
    THEN CHOOSE i \in iter : i > from /\ \A k \in iter : k > from => i <= k
    ELSE 0

all_jobs_count(js) == Cardinality(all_jobs(js))

job_id(i) == i - 1

job_by_id(js, id) == IF id + 1 \in 1..Len(js) THEN id + 1 ELSE 0

loc_or_slot(j) == IF j.loc # NoLoc THEN j.loc ELSE "slot"

\* j.order.parse::<usize>()
parse_usize(s) ==
    IF \E n \in 1..Len(DecStr) : DecStr[n] = s
    THEN [ok |-> TRUE, val |-> (CHOOSE n \in 1..Len(DecStr) : DecStr[n] = s) - 1]
    ELSE [ok |-> FALSE, val |-> 0]

\* number_to_alloc -= 1 on a usize kept as its signed residue.
usize_dec(n) == [overflow |-> (n = 0), val |-> n - 1]

\* ------------------------------------------------------------- Init
\* The inventories ProcMap::init can build: every node/NUMA/slot shape with at
\* most MaxNodes nodes (a report with an empty numa list makes a node without
\* NUMA domain) and at most MaxSlots slots; a NUMA domain holds at least one slot.
RECURSIVE Compositions(_)
Compositions(s) ==
    IF s = 0 THEN {<<>>}
    ELSE UNION {{<<k>> \o c : c \in Compositions(s - k)} : k \in 1..s}

NodeShapes(maxs) == UNION {Compositions(s) : s \in 0..maxs}

RECURSIVE InventoryShapes(_, _)
InventoryShapes(n, s) ==
    IF n = 0 THEN {<<>>}
    ELSE UNION {{<<c>> \o r : r \in InventoryShapes(n - 1, s - SumSeq(c))} : c \in NodeShapes(s)}

Shapes == UNION {InventoryShapes(n, MaxSlots) : n \in 0..MaxNodes}

\* Number of slots of shape sh that the walk meets before NUMA k of node i.
SlotsBefore(sh, i, k) ==
    SumSeq([a \in 1..(i - 1) |-> SumSeq(sh[a])]) + SumSeq(SubSeq(sh[i], 1, k - 1))

\* One rank per slot, numbered in walk order; every slot free.
MakeInventory(sh) ==
    [i \in 1..Len(sh) |->
        [host |-> Hosts[i],
         numas |-> [k \in 1..Len(sh[i]) |->
            [id |-> k - 1,
             slots |-> [s \in 1..sh[i][k] |->
                [rank |-> SlotsBefore(sh, i, k) + s - 1, job |-> NoJob]]]]]]

\* The JobEntries JobList::load can produce (Job::parse accepted the map).
\* Orders "0".."MaxOrder", the "5" of scenario S4, and one that overflows usize.
FixedOrders == {DecStr[n + 1] : n \in 0..MaxOrder} \cup {"5", TooBig}

Placements ==
    [order : {"E"}, loc : Locs] \cup [order : {"A"} \cup FixedOrders, loc : Locs \cup {NoLoc}]

JobLists ==
    UNION {{[i \in 1..n |-> [order |-> f[i].order, loc |-> f[i].loc, command |-> Commands[i]]] :
                f \in [1..n -> Placements]} : n \in 0..MaxJobs}

\* The JobLists with at most MaxAllJobs "A" jobs and at most MaxPreJobs other jobs,
\* in any order.
JobListsAll ==
    UNION {{[i \in 1..n |-> [order |-> f[i].order, loc |-> f[i].loc, command |-> Commands[i]]] :
                f \in {g \in [1..n -> Placements] :
                        /\ Cardinality({i \in 1..n : is_all(g[i])}) <= MaxAllJobs
                        /\ Cardinality({i \in 1..n : ~is_all(g[i])}) <= MaxPreJobs}} :
            n \in 0..(MaxPreJobs + MaxAllJobs)}

NoErr == [kind |-> "none", arg |-> 0]
NoFile == [written |-> FALSE, lines |-> {}]
NoSrun == [status |-> 0, launch_status |-> 0]
NoReport == [host |-> "", rank |-> [hi |-> 0, lo |-> 0], numa |-> <<>>, pu |-> <<>>]
Unset == [set |-> FALSE, num |-> FALSE, val |-> 0]
NoEnv == [PMI_RANK |-> Unset, PMIX_RANK |-> Unset]
NoJobFile == [readable |-> FALSE, jobs |-> <<>>]

\* main, after ProcMap::init and JobList::load returned Ok, entering pmap.map(&mut jobs).
Start(lists) ==
    /\ nodes \in {MakeInventory(sh) : sh \in Shapes}
    /\ jobs \in lists
    /\ pc = "each_next"
    /\ status = "running"
    /\ err = NoErr
    /\ cur = 0
    /\ idx = 0
    /\ level = "slot"
    /\ size = 0
    /\ jobid = 0
    /\ on_each = FALSE
    /\ ret = "none"
    /\ number_to_alloc = 0
    /\ did_alloc = FALSE
    /\ remaining_slots = 0
    /\ quantum = 0
    /\ rest = 0
    /\ is_first = FALSE
    /\ file = NoFile
    /\ args = [map |-> FALSE, display |-> FALSE, job |-> TRUE]
    /\ environ = NoEnv
    /\ topology = <<>>
    /\ srun = NoSrun
    /\ reports = <<>>
    /\ jobfile = NoJobFile
    /\ launched = <<"discovery">>
    /\ printed = NoReport
    /\ exit_code = NotExited

Init == Start(JobLists)

InitAll == Start(JobListsAll)

\* ---------------------------------------------------- ProcMap::map
\* return Err(e) / panic: the solver stops where it is.
Raise(st, e) ==
    /\ status' = st
    /\ err' = e

\* `for j in jobs.each_jobs()`: the loop head, and the match on j.loc.
MapEachNext ==
    /\ status = "running" /\ pc = "each_next"
    /\ LET n == NextJob(each_jobs(jobs), cur)
       IN  IF n = 0
           THEN /\ pc' = "fixed_next"
                /\ cur' = 0
                /\ UNCHANGED <<status, err, idx>>
           ELSE /\ cur' = n
                /\ IF jobs[n].loc = NoLoc
                   THEN /\ Raise("panic", [kind |-> "Unreachable", arg |-> 0])
                        /\ UNCHANGED <<pc, idx>>
                   ELSE IF jobs[n].loc \notin Locs
                   THEN /\ Raise("error", [kind |-> "NoSuchLocality", arg |-> jobs[n].loc])
                        /\ UNCHANGED <<pc, idx>>
                   ELSE /\ pc' = "each_acquire"
                        /\ idx' = 1
                        /\ UNCHANGED <<status, err>>
    /\ UNCHANGED <<nodes, jobs, file>>
    /\ UNCHANGED walk_vars
    /\ UNCHANGED all_vars
    /\ UNCHANGED main_vars

\* One iteration of `for nu in self.each_numa() { nu.acquire(jobs.job_id(j)?)?; }`
\* (resp. each_node, each_slot).
MapEachAcquire ==
    /\ status = "running" /\ pc = "each_acquire"
    /\ LET loc == jobs[cur].loc
           ts == Targets(nodes, loc)
       IN  IF idx > Len(ts)
           THEN /\ pc' = "each_next"
                /\ UNCHANGED <<nodes, status, err, idx>>
           ELSE LET r == AcquireAt(nodes, loc, ts[idx], job_id(cur))
                IN  IF r.ok
                    THEN /\ nodes' = r.nodes
                         /\ idx' = idx + 1
                         /\ UNCHANGED <<pc, status, err>>
                    ELSE /\ Raise("error", r.err)
                         /\ UNCHANGED <<nodes, pc, idx>>
    /\ UNCHANGED <<jobs, cur, file>>
    /\ UNCHANGED walk_vars
    /\ UNCHANGED all_vars
    /\ UNCHANGED main_vars

\* The call self.map_for_defined_size(lvl, sz, id, each) and its `match level`.
Call(lvl, sz, id, each, back) ==
    /\ level' = lvl
    /\ size' = sz
    /\ jobid' = id
    /\ on_each' = each
    /\ ret' = back
    /\ number_to_alloc' = sz
    /\ did_alloc' = FALSE
    /\ idx' = 1
    /\ IF lvl \in {"numa", "node"}
       THEN /\ pc' = "walk_pass"
            /\ UNCHANGED <<status, err>>
       ELSE IF lvl = "slot"
       THEN /\ pc' = "walk_slot"
            /\ UNCHANGED <<status, err>>
       ELSE /\ Raise("error", [kind |-> "NoSuchLocality", arg |-> lvl])
            /\ UNCHANGED pc

\* Mutant: phase 2 calls the walk with on_each = false.
MapFixedNext_skip_full ==
    /\ status = "running" /\ pc = "fixed_next"
    /\ LET n == NextJob(fixed_jobs(jobs), cur)
       IN  IF n = 0
           THEN /\ pc' = "all_entry"
                /\ cur' = 0
                /\ UNCHANGED <<status, err, idx>>
                /\ UNCHANGED walk_vars
           ELSE /\ cur' = n
                /\ LET p == parse_usize(jobs[n].order)
                   IN  IF ~p.ok
                       THEN /\ Raise("error", [kind |-> "FailedToParseFixed", arg |-> jobs[n].order])
                            /\ UNCHANGED <<pc, idx>>
                            /\ UNCHANGED walk_vars
                       ELSE Call(loc_or_slot(jobs[n]), p.val, job_id(n), FALSE, "fixed_next")
    /\ UNCHANGED <<nodes, jobs, file>>
    /\ UNCHANGED all_vars
    /\ UNCHANGED main_vars

\* `for j in jobs.fixed_jobs()`: the loop head, the parse of j.order and the call.
MapFixedNext ==
    /\ status = "running" /\ pc = "fixed_next"
    /\ LET n == NextJob(fixed_jobs(jobs), cur)
       IN  IF n = 0
           THEN /\ pc' = "all_entry"
                /\ cur' = 0
                /\ UNCHANGED <<status, err, idx>>
                /\ UNCHANGED walk_vars
           ELSE /\ cur' = n
                /\ LET p == parse_usize(jobs[n].order)
                   IN  IF ~p.ok
                       THEN /\ Raise("error", [kind |-> "FailedToParseFixed", arg |-> jobs[n].order])
                            /\ UNCHANGED <<pc, idx>>
                            /\ UNCHANGED walk_vars
                       ELSE Call(loc_or_slot(jobs[n]), p.val, job_id(n), TRUE, "fixed_next")
    /\ UNCHANGED <<nodes, jobs, file>>
    /\ UNCHANGED all_vars
    /\ UNCHANGED main_vars

\* quantum = remaining_slots / all_job_count
share_quantum(r, k) == r \div k

\* rest = remaining_slots - (all_job_count * quantum)
share_rest(r, k, q) == r - (k * q)

\* tsize: the rest goes to the first "A" job.
\* Mutant: the rest is not handed out at all.
tsize_norest(first, q, r) == q

\* Mutant: the rest goes to every "A" job but the first.
tsize_rest_to_later(first, q, r) == IF first THEN q ELSE q + r

tsize(first, q, r) == IF first THEN q + r ELSE q

\* remaining_slots, all_job_count, quantum, rest, is_first.
MapAllEntry ==
    /\ status = "running" /\ pc = "all_entry"
    /\ LET r == count_free_slots(nodes)
           k == all_jobs_count(jobs)
       IN  /\ remaining_slots' = r
           /\ IF k = 0
              THEN /\ Raise("panic", [kind |-> "DivideByZero", arg |-> 0])
                   /\ UNCHANGED <<pc, quantum, rest, is_first>>
              ELSE /\ quantum' = share_quantum(r, k)
                   /\ rest' = share_rest(r, k, share_quantum(r, k))
                   /\ is_first' = TRUE
                   /\ pc' = "all_next"
                   /\ UNCHANGED <<status, err>>
    /\ UNCHANGED <<nodes, jobs, cur, idx, file>>
    /\ UNCHANGED walk_vars
    /\ UNCHANGED main_vars

\* Mutant: phase 3 calls the walk with on_each = true.
MapAllNext_on_each ==
    /\ status = "running" /\ pc = "all_next"
    /\ LET n == NextJob(all_jobs(jobs), cur)
       IN  IF n = 0
           THEN /\ pc' = "done"
                /\ status' = "ok"
                /\ UNCHANGED <<err, cur, idx, is_first>>
                /\ UNCHANGED walk_vars
           ELSE /\ cur' = n
                /\ is_first' = FALSE
                /\ Call(loc_or_slot(jobs[n]), tsize(is_first, quantum, rest),
                        job_id(n), TRUE, "all_next")
    /\ UNCHANGED <<nodes, jobs, remaining_slots, quantum, rest, file>>
    /\ UNCHANGED main_vars

\* `for j in jobs.all_jobs()`: the loop head, tsize and the call; Ok(()) at the end.
MapAllNext ==
    /\ status = "running" /\ pc = "all_next"
    /\ LET n == NextJob(all_jobs(jobs), cur)
       IN  IF n = 0
           THEN /\ pc' = "done"
                /\ status' = "ok"
                /\ UNCHANGED <<err, cur, idx, is_first>>
                /\ UNCHANGED walk_vars
           ELSE /\ cur' = n
                /\ is_first' = FALSE
                /\ Call(loc_or_slot(jobs[n]), tsize(is_first, quantum, rest),
                        job_id(n), FALSE, "all_next")
    /\ UNCHANGED <<nodes, jobs, remaining_slots, quantum, rest, file>>
    /\ UNCHANGED main_vars

\* ------------------------------------- ProcMap::map_for_defined_size
\* "numa" / "node": `while 0 < number_to_alloc`, and Ok(()) when it ends.
WalkPass ==
    /\ status = "running" /\ pc = "walk_pass"
    /\ IF number_to_alloc # 0
       THEN /\ did_alloc' = FALSE
            /\ idx' = 1
            /\ pc' = "walk_acquire"
       ELSE /\ pc' = ret
            /\ UNCHANGED <<did_alloc, idx>>
    /\ UNCHANGED <<nodes, jobs, status, err, cur, file>>
    /\ UNCHANGED <<level, size, jobid, on_each, ret, number_to_alloc>>
    /\ UNCHANGED all_vars
    /\ UNCHANGED main_vars

\* Mutant: a pass that acquired nothing is followed by another pass.
WalkAcquire_retry ==
    /\ status = "running" /\ pc = "walk_acquire"
    /\ LET ts == Targets(nodes, level)
       IN  IF idx > Len(ts)
           THEN /\ IF did_alloc = FALSE
                   THEN /\ pc' = "walk_pass"
                        /\ UNCHANGED <<status, err>>
                   ELSE /\ pc' = "walk_pass"
                        /\ UNCHANGED <<status, err>>
                /\ UNCHANGED <<nodes, idx, number_to_alloc, did_alloc>>
           ELSE LET r == AcquireAt(nodes, level, ts[idx], jobid)
                    d == usize_dec(number_to_alloc)
                IN  IF r.ok
                    THEN /\ nodes' = r.nodes
                         /\ did_alloc' = TRUE
                         /\ number_to_alloc' = d.val
                         /\ IF d.val = 0
                            THEN pc' = "walk_pass" /\ UNCHANGED idx
                            ELSE idx' = idx + 1 /\ UNCHANGED pc
                         /\ UNCHANGED <<status, err>>
                    ELSE /\ IF on_each
                            THEN /\ Raise("error", [kind |-> "NoRoomOn", arg |-> level])
                                 /\ UNCHANGED idx
                            ELSE /\ idx' = idx + 1
                                 /\ UNCHANGED <<status, err>>
                         /\ UNCHANGED <<nodes, pc, number_to_alloc, did_alloc>>
    /\ UNCHANGED <<jobs, cur, file>>
    /\ UNCHANGED <<level, size, jobid, on_each, ret>>
    /\ UNCHANGED all_vars
    /\ UNCHANGED main_vars

\* "numa" / "node": one iteration of `for nu in self.each_numa()` (resp. each_node),
\* and the did_alloc test after the loop.
WalkAcquire ==
    /\ status = "running" /\ pc = "walk_acquire"
    /\ LET ts == Targets(nodes, level)
       IN  IF idx > Len(ts)
           THEN /\ IF did_alloc = FALSE
                   THEN /\ Raise("error", [kind |-> "NoRoomToAllocateFixed", arg |-> number_to_alloc])
                        /\ UNCHANGED pc
                   ELSE /\ pc' = "walk_pass"
                        /\ UNCHANGED <<status, err>>
                /\ UNCHANGED <<nodes, idx, number_to_alloc, did_alloc>>
           ELSE LET r == AcquireAt(nodes, level, ts[idx], jobid)
                    d == usize_dec(number_to_alloc)
                IN  IF r.ok
                    THEN /\ nodes' = r.nodes
                         /\ did_alloc' = TRUE
                         /\ number_to_alloc' = d.val
                         /\ IF d.val = 0
                            THEN pc' = "walk_pass" /\ UNCHANGED idx
                            ELSE idx' = idx + 1 /\ UNCHANGED pc
                         /\ UNCHANGED <<status, err>>
                    ELSE /\ IF on_each
                            THEN /\ Raise("error", [kind |-> "NoRoomOn", arg |-> level])
                                 /\ UNCHANGED idx
                            ELSE /\ idx' = idx + 1
                                 /\ UNCHANGED <<status, err>>
                         /\ UNCHANGED <<nodes, pc, number_to_alloc, did_alloc>>
    /\ UNCHANGED <<jobs, cur, file>>
    /\ UNCHANGED <<level, size, jobid, on_each, ret>>
    /\ UNCHANGED all_vars
    /\ UNCHANGED main_vars

\* Mutant: no `if number_to_alloc != 0` test after the loop.
SlotWalkEnd_nocheck(n) ==
    /\ pc' = ret
    /\ UNCHANGED <<status, err>>

\* "slot": the test after `for s in self.each_slot()`, reached at its end or by break.
SlotWalkEnd(n) ==
    IF n # 0
    THEN /\ Raise("error", [kind |-> "NotEnoughSlots", arg |-> size])
         /\ UNCHANGED pc
    ELSE /\ pc' = ret
         /\ UNCHANGED <<status, err>>

\* "slot": one iteration of `for s in self.each_slot()`.
WalkSlot ==
    /\ status = "running" /\ pc = "walk_slot"
    /\ LET ts == each_slot(nodes)
       IN  IF idx > Len(ts)
           THEN /\ SlotWalkEnd(number_to_alloc)
                /\ UNCHANGED <<nodes, idx, number_to_alloc>>
           ELSE IF Slot_is_free(SlotAt(nodes, ts[idx]))
           THEN LET r == AcquireAt(nodes, "slot", ts[idx], jobid)
                    d == usize_dec(number_to_alloc)
                IN  /\ nodes' = r.nodes
                    /\ \E checks \in BOOLEAN :
                         IF d.overflow /\ checks
                         THEN /\ Raise("panic", [kind |-> "SubtractWithOverflow", arg |-> 0])
                              /\ UNCHANGED <<pc, idx, number_to_alloc>>
                         ELSE /\ number_to_alloc' = d.val
                              /\ IF d.val = 0
                                 THEN SlotWalkEnd(d.val) /\ UNCHANGED idx
                                 ELSE /\ idx' = idx + 1
                                      /\ UNCHANGED <<pc, status, err>>
           ELSE /\ IF number_to_alloc = 0
                   THEN SlotWalkEnd(number_to_alloc) /\ UNCHANGED idx
                   ELSE /\ idx' = idx + 1
                        /\ UNCHANGED <<pc, status, err>>
                /\ UNCHANGED <<nodes, number_to_alloc>>
    /\ UNCHANGED <<jobs, cur, file>>
    /\ UNCHANGED <<level, size, jobid, on_each, ret, did_alloc>>
    /\ UNCHANGED all_vars
    /\ UNCHANGED main_vars

\* -------------------------------------------------- ProcMap::to_slurm
\* Mutant: `or_insert` of the first rank of a job, without the push of the others.
RanksOf_first(ns, k) ==
    LET held == SelectSeq(each_slot(ns), LAMBDA p : SlotAt(ns, p).job = k)
    IN  [i \in 1..(IF Len(held) = 0 THEN 0 ELSE 1) |-> SlotAt(ns, held[i]).rank]

\* per_job: the ranks of the slots of job k, in walk order.
RanksOf(ns, k) ==
    LET held == SelectSeq(each_slot(ns), LAMBDA p : SlotAt(ns, p).job = k)
    IN  [i \in 1..Len(held) |-> SlotAt(ns, held[i]).rank]

JobsHeld(ns) ==
    LET es == each_slot(ns)
    IN  {SlotAt(ns, es[i]).job : i \in 1..Len(es)} \ {NoJob}

\* The lines of the file, one per key of per_job (the order of the lines is the
\* HashMap's, unspecified); written is FALSE when a key is no job of the list.
to_slurm(ns, js) ==
    IF \E k \in JobsHeld(ns) : job_by_id(js, k) = 0
    THEN [written |-> FALSE, lines |-> {}]
    ELSE [written |-> TRUE,
          lines |-> {[job |-> k, ranks |-> RanksOf(ns, k), command |-> js[job_by_id(js, k)].command] :
                        k \in JobsHeld(ns)}]

\* main: pmap.to_slurm(...) after pmap.map(&mut jobs)? returned Ok.
ToSlurm ==
    /\ status = "ok" /\ pc = "done"
    /\ file' = to_slurm(nodes, jobs)
    /\ pc' = "emitted"
    /\ UNCHANGED <<nodes, jobs, status, err, cur, idx>>
    /\ UNCHANGED walk_vars
    /\ UNCHANGED all_vars
    /\ UNCHANGED main_vars

Next ==
    \/ MapEachNext
    \/ MapEachAcquire
    \/ MapFixedNext
    \/ MapAllEntry
    \/ MapAllNext
    \/ WalkPass
    \/ WalkAcquire
    \/ WalkSlot
    \/ ToSlurm

Spec == Init /\ [][Next]_vars

\* The same program on the JobLists that exercise phase 3.
SpecAll == InitAll /\ [][Next]_vars

\* The solver is one sequential thread that runs until map returns or panics:
\* a step that can be taken is taken.
InitLive == Init /\ Len(each_slot(nodes)) <= MaxLiveSlots

SpecLive == InitLive /\ [][Next]_vars /\ WF_vars(Next)

\* ================================================================ main
\* ------------------------------------------------------- output_map
\* The topologies the probe may see: up to MaxNumaNodes NUMA nodes, in topology
\* order, NUMA node k with OS index k and a CPU set (restricted to the process)
\* that is empty or holds the PUs 2k and 2k + 1.
CpuSets(k) == {<<>>, <<2 * k, (2 * k) + 1>>}

Topologies ==
    UNION {{[i \in 1..n |-> [os_index |-> i - 1, cpuset |-> f[i]]] :
                f \in {g \in [1..n -> UNION {CpuSets(k) : k \in 0..(n - 1)}] :
                        \A i \in 1..n : g[i] \in CpuSets(i - 1)}} :
            n \in 0..MaxNumaNodes}

\* What PMI_RANK or PMIX_RANK can be: not set, set to no i32, set to an i32.
EnvVars ==
    {Unset, [set |-> TRUE, num |-> FALSE, val |-> 0]}
        \cup {[set |-> TRUE, num |-> TRUE, val |-> v] : v \in RankValues}

Environs == [PMI_RANK : EnvVars, PMIX_RANK : EnvVars]

\* `let rank: i32 = match std::env::var("PMI_RANK") ...`: ok is FALSE when the
\* unwrap of val.parse() panics.
probe_rank(e) ==
    IF e.PMI_RANK.set THEN [ok |-> e.PMI_RANK.num, val |-> e.PMI_RANK.val]
    ELSE IF e.PMIX_RANK.set THEN [ok |-> e.PMIX_RANK.num, val |-> e.PMIX_RANK.val]
    ELSE [ok |-> TRUE, val |-> -1]

\* `rank as u32`: the i32 modulo 2^32, kept as its two 16-bit halves.
as_u32(r) == [hi |-> (r \div Half) % Half, lo |-> r % Half]

\* The JobDesc output_map prints: per_numa_cpuset gets the CPU set of every NUMA
\* node (the push is in the `map` before the filter), numa only the OS indices of
\* the NUMA nodes whose CPU set is not empty.
output_map(t, host, rank) ==
    LET per_numa_cpuset == [i \in 1..Len(t) |-> t[i].cpuset]
        kept == SelectSeq(t, LAMBDA n : n.cpuset # <<>>)
    IN  [host |-> host,
         rank |-> as_u32(rank),
         numa |-> [i \in 1..Len(kept) |-> kept[i].os_index],
         pu |-> per_numa_cpuset]

\* ------------------------------------------------ ProcMap::discovery
\* A line of the output of srun: json is whether serde_json parses it as a JobDesc.
BadLine == [json |-> FALSE, desc |-> NoReport]

\* What srun prints on its standard output: at most MaxLines lines, line i the
\* JobDesc of the probe of rank i - 1 on some host, or a line that is no JobDesc.
LineChoices ==
    [json : {TRUE}, host : {Hosts[1], Hosts[2]}, topology : Topologies]
        \cup {[json |-> FALSE, host |-> Hosts[1], topology |-> <<>>]}

Outputs ==
    UNION {{[i \in 1..n |-> IF f[i].json
                            THEN [json |-> TRUE,
                                  desc |-> output_map(f[i].topology, f[i].host, i - 1)]
                            ELSE BadLine] :
                f \in [1..n -> LineChoices]} :
            n \in 0..MaxLines}

\* serde_json::to_string of a u32: its decimal digits.
DivTen(u) ==
    LET t == ((u.hi % 10) * Half) + u.lo
    IN  [q |-> [hi |-> u.hi \div 10, lo |-> t \div 10], d |-> t % 10]

RECURSIVE to_string_u32(_)
to_string_u32(u) ==
    IF u.hi = 0 /\ u.lo < 10 THEN <<Digit10[u.lo + 1]>>
    ELSE Append(to_string_u32(DivTen(u).q), Digit10[DivTen(u).d + 1])

\* serde_json::from_str of a u32 from decimal digits, from position i on; ok is
\* FALSE when the number does not fit.
RECURSIVE parse_u32(_, _, _)
parse_u32(s, i, acc) ==
    IF i > Len(s) THEN [ok |-> TRUE, val |-> acc]
    ELSE LET d == CHOOSE x \in 0..9 : Digit10[x + 1] = s[i]
             lo == (acc.lo * 10) + d
             hi == (acc.hi * 10) + (lo \div Half)
         IN  IF hi >= Half THEN [ok |-> FALSE, val |-> acc]
             ELSE parse_u32(s, i + 1, [hi |-> hi, lo |-> lo % Half])

\* The JobDesc serde_json reads from the line that output_map printed for d.
from_str(d) ==
    LET r == parse_u32(to_string_u32(d.rank), 1, [hi |-> 0, lo |-> 0])
    IN  [ok |-> r.ok, desc |-> [d EXCEPT !.rank = r.val]]

\* The lines that parse as a JobDesc, in order.
discovery(output) ==
    LET good == SelectSeq(output, LAMBDA l : l.json /\ from_str(l.desc).ok)
    IN  [i \in 1..Len(good) |-> from_str(good[i].desc).desc]

\* ---------------------------------------------------- ProcMap::init
IndexOf(seq, key, v) ==
    IF \E i \in 1..Len(seq) : seq[i][key] = v
    THEN CHOOSE i \in 1..Len(seq) : seq[i][key] = v
    ELSE 0

\* ret.nodes.entry(host).or_insert(Node { host, numas: HashMap::new() })
EnsureNode(ns, host) ==
    IF IndexOf(ns, "host", host) = 0 THEN Append(ns, [host |-> host, numas |-> <<>>]) ELSE ns

\* node.numas.entry(numa_id).or_insert(Numa { id, slots: Vec::new() })
EnsureNuma(numas, id) ==
    IF IndexOf(numas, "id", id) = 0 THEN Append(numas, [id |-> id, slots |-> <<>>]) ELSE numas

\* Mutant: the slot replaces the slots of the NUMA domain instead of being pushed.
PushSlot_replace(ns, host, id, slot) ==
    LET i == IndexOf(ns, "host", host)
        numas == EnsureNuma(ns[i].numas, id)
        k == IndexOf(numas, "id", id)
    IN  [ns EXCEPT ![i].numas = [numas EXCEPT ![k].slots = <<slot>>]]

\* numa.slots.push(Slot { rank, pu, job: None }) on NUMA id of the node of host.
PushSlot(ns, host, id, slot) ==
    LET i == IndexOf(ns, "host", host)
        numas == EnsureNuma(ns[i].numas, id)
        k == IndexOf(numas, "id", id)
    IN  [ns EXCEPT ![i].numas = [numas EXCEPT ![k].slots = Append(@, slot)]]

\* Mutant: the conversion drops the sign bit.
as_i32_clear_sign(u) == ((u.hi % (Half \div 2)) * Half) + u.lo

\* `job.rank as i32`: the u32 read as a two's complement i32.
as_i32(u) ==
    IF u.hi >= Half \div 2 THEN ((u.hi - Half) * Half) + u.lo ELSE (u.hi * Half) + u.lo

\* `for (cnt, numa_id) in job.numa.iter().enumerate()` from position cnt on.
RECURSIVE AddPairs(_, _, _)
AddPairs(ns, job, cnt) ==
    IF cnt > Len(job.numa) THEN ns
    ELSE AddPairs(PushSlot(ns, job.host, job.numa[cnt],
                           [rank |-> as_i32(job.rank), pu |-> job.pu[cnt], job |-> NoJob]),
                  job, cnt + 1)

\* `for job in jobs.iter()` from position i on.
RECURSIVE AddReports(_, _, _)
AddReports(ns, reps, i) ==
    IF i > Len(reps) THEN ns
    ELSE AddReports(AddPairs(EnsureNode(ns, reps[i].host), reps[i], 1), reps, i + 1)

\* job.pu.get(cnt).expect("Failed to retrieve slots") panics on some report.
ExpectPanics(reps) == \E i \in 1..Len(reps) : Len(reps[i].pu) < Len(reps[i].numa)

\* The inventory, nodes and NUMA domains in the order of their insertion.
ProcMap_build(reps) == AddReports(<<>>, reps, 1)

\* The iteration orders the HashMaps of the inventory can have.
Perms(n) == {p \in [1..n -> 1..n] : \A a, b \in 1..n : a # b => p[a] # p[b]}

NumaOrders(node) ==
    {[node EXCEPT !.numas = [k \in 1..Len(node.numas) |-> node.numas[q[k]]]] :
        q \in Perms(Len(node.numas))}

HashOrders(ns) ==
    {m \in [1..Len(ns) -> UNION {NumaOrders(ns[i]) : i \in 1..Len(ns)}] :
        \E p \in Perms(Len(ns)) : \A i \in 1..Len(ns) : m[i] \in NumaOrders(ns[p[i]])}

\* ------------------------------------------------------- Job::parse
\* A placement string is the sequence of its characters.
RECURSIVE Join(_)
Join(cs) == IF cs = <<>> THEN "" ELSE Head(cs) \o Join(Tail(cs))

Digits == {"0", "1", "2", "3", "4", "5", "6", "7", "8", "9"}
Lower == {"a", "b", "c", "d", "e", "f", "g", "h", "i", "j", "k", "l", "m",
          "n", "o", "p", "q", "r", "s", "t", "u", "v", "w", "x", "y", "z"}

\* The end of the longest run of characters of class at position from (from - 1: none).
RunEnd(s, from, class) ==
    CHOOSE e \in (from - 1)..Len(s) :
        /\ \A i \in from..e : s[i] \in class
        /\ e < Len(s) => s[e + 1] \notin class

\* Mutant: no `if ord == "E"` test of the locality.
Job_parse_E_alone(s) ==
    LET starts == {i \in 1..Len(s) : s[i] \in {"A", "E"} \cup Digits}
    IN  IF starts = {}
        THEN [ok |-> FALSE, order |-> "", loc |-> NoLoc, err |-> [kind |-> "BadSyntax", arg |-> Join(s)]]
        ELSE
        LET start == CHOOSE i \in starts : \A k \in starts : i <= k
            ordEnd == IF s[start] \in {"A", "E"} THEN start ELSE RunEnd(s, start, Digits)
            locEnd == RunEnd(s, ordEnd + 1, Lower)
            ord == Join(SubSeq(s, start, ordEnd))
            loc == Join(SubSeq(s, ordEnd + 1, locEnd))
        IN  IF loc # "" /\ loc \notin Locs
            THEN [ok |-> FALSE, order |-> ord, loc |-> loc, err |-> [kind |-> "NoSuchLocation", arg |-> loc]]
            ELSE [ok |-> TRUE, order |-> ord, loc |-> IF loc = "" THEN NoLoc ELSE loc, err |-> NoErr]

\* Regex::new("([AE]|[0-9]+)([a-z]+)?").captures(map): the leftmost match, which
\* starts at the first character that is A, E or a digit; group 1 is that A or E,
\* or the longest run of digits; group 2 the longest run of a-z that follows.
Job_parse(s) ==
    LET starts == {i \in 1..Len(s) : s[i] \in {"A", "E"} \cup Digits}
    IN  IF starts = {}
        THEN [ok |-> FALSE, order |-> "", loc |-> NoLoc, err |-> [kind |-> "BadSyntax", arg |-> Join(s)]]
        ELSE
        LET start == CHOOSE i \in starts : \A k \in starts : i <= k
            ordEnd == IF s[start] \in {"A", "E"} THEN start ELSE RunEnd(s, start, Digits)
            locEnd == RunEnd(s, ordEnd + 1, Lower)
            ord == Join(SubSeq(s, start, ordEnd))
            loc == Join(SubSeq(s, ordEnd + 1, locEnd))
        IN  IF loc # "" /\ loc \notin Locs
            THEN [ok |-> FALSE, order |-> ord, loc |-> loc, err |-> [kind |-> "NoSuchLocation", arg |-> loc]]
            ELSE IF ord = "E" /\ loc = ""
            THEN [ok |-> FALSE, order |-> ord, loc |-> NoLoc, err |-> [kind |-> "ERequiresLocality", arg |-> 0]]
            ELSE [ok |-> TRUE, order |-> ord, loc |-> IF loc = "" THEN NoLoc ELSE loc, err |-> NoErr]

\* JobEntry::from_job (JobEntry.map, which nothing reads, stays in the job file).
from_job(job) ==
    [order |-> Job_parse(job.map).order, loc |-> Job_parse(job.map).loc, command |-> job.command]

\* -------------------------------------------------- JobList::load
\* A job file that cannot be read, or that is no YAML list of jobs.
Unreadable == [readable |-> FALSE, jobs |-> <<>>]

\* The placement strings of the job files.
MapStrings ==
    { <<"A">>, <<"A", "n", "o", "d", "e">>, <<"E", "n", "u", "m", "a">>,
      <<"1">>, <<"2", "s", "l", "o", "t">>, <<"2", "n", "o", "d", "e">>,
      <<"E">>, <<"Q">>, <<"Q", "A">>, <<"4", "n", "u", "m", "a", "X">>,
      <<"4", "N", "U", "M", "A">>, <<"2", "f", "o", "o">>, <<>> }

\* The job files: unreadable (or no YAML list of jobs), or at most MaxFileJobs jobs.
JobFiles ==
    {Unreadable} \cup
    UNION {{[readable |-> TRUE,
             jobs |-> [i \in 1..n |-> [map |-> f[i], command |-> Commands[i]]]] :
                f \in [1..n -> MapStrings]} : n \in 0..MaxFileJobs}

\* read_to_string and serde_yaml::from_str, then from_job on every Job in order;
\* the first that fails is the error of load.
load(jf) ==
    IF ~jf.readable
    THEN [ok |-> FALSE, jobs |-> <<>>, err |-> [kind |-> "ReadError", arg |-> 0]]
    ELSE LET js == jf.jobs
             bad == {i \in 1..Len(js) : ~Job_parse(js[i].map).ok}
         IN  IF bad # {}
             THEN [ok |-> FALSE, jobs |-> <<>>,
                   err |-> Job_parse(js[CHOOSE i \in bad : \A k \in bad : i <= k].map).err]
             ELSE [ok |-> TRUE, jobs |-> [i \in 1..Len(js) |-> from_job(js[i])], err |-> NoErr]

\* ------------------------------------------------------------- main
\* The command lines; -d without -m only prints the inventory, which is not
\* modelled, so it is left out.
ArgsSet == {a \in [map : BOOLEAN, display : BOOLEAN, job : BOOLEAN] : a.display => a.map}

\* main is entered: nothing discovered, loaded, spawned or printed yet.
InitMain ==
    /\ args \in ArgsSet
    /\ jobfile = NoJobFile
    /\ pc = "main"
    /\ nodes = <<>>
    /\ jobs = <<>>
    /\ status = "running"
    /\ err = NoErr
    /\ cur = 0
    /\ idx = 0
    /\ level = "slot"
    /\ size = 0
    /\ jobid = 0
    /\ on_each = FALSE
    /\ ret = "none"
    /\ number_to_alloc = 0
    /\ did_alloc = FALSE
    /\ remaining_slots = 0
    /\ quantum = 0
    /\ rest = 0
    /\ is_first = FALSE
    /\ file = NoFile
    /\ environ = NoEnv
    /\ topology = <<>>
    /\ srun = NoSrun
    /\ reports = <<>>
    /\ launched = <<>>
    /\ printed = NoReport
    /\ exit_code = NotExited

solver_vars == <<cur, idx, level, size, jobid, on_each, ret, number_to_alloc, did_alloc,
                 remaining_slots, quantum, rest, is_first, file>>

\* `if args.map`: the probe. -m with -d is refused, else output_map prints the
\* JobDesc of the process and main returns Ok.
MainProbe ==
    /\ pc = "main" /\ status = "running" /\ args.map
    /\ IF args.display
       THEN /\ Raise("error", [kind |-> "MutuallyExclusive", arg |-> 0])
            /\ UNCHANGED <<pc, environ, topology, printed, exit_code>>
       ELSE \E t \in Topologies, h \in {Hosts[1], Hosts[2]}, e \in Environs :
               /\ topology' = t
               /\ environ' = e
               /\ IF probe_rank(e).ok
                  THEN /\ printed' = output_map(t, h, probe_rank(e).val)
                       /\ pc' = "exit"
                       /\ exit_code' = 0
                       /\ UNCHANGED <<status, err>>
                  ELSE /\ Raise("panic", [kind |-> "ParseIntError", arg |-> 0])
                       /\ UNCHANGED <<pc, printed, exit_code>>
    /\ UNCHANGED <<nodes, jobs, args, srun, reports, jobfile, launched>>
    /\ UNCHANGED solver_vars

\* `if let Err(e) = which("srun")`.
MainWhich ==
    /\ pc = "main" /\ status = "running" /\ ~args.map
    /\ \E found \in BOOLEAN :
          IF found
          THEN /\ pc' = "discovery"
               /\ UNCHANGED <<status, err>>
          ELSE /\ Raise("error", [kind |-> "SrunNotFound", arg |-> 0])
               /\ UNCHANGED pc
    /\ UNCHANGED <<nodes, jobs, args, environ, topology, srun, reports, jobfile, launched, printed, exit_code>>
    /\ UNCHANGED solver_vars

\* ProcMap::discovery: srun is spawned, its standard output is read to its end
\* and parsed line by line; its exit status is not looked at.
Discovery ==
    /\ pc = "discovery" /\ status = "running"
    /\ launched' = Append(launched, "discovery")
    /\ \E out \in Outputs, st \in ExitStatuses :
          /\ srun' = [srun EXCEPT !.status = st]
          /\ reports' = discovery(out)
    /\ pc' = "init_build"
    /\ UNCHANGED <<nodes, jobs, status, err, args, environ, topology, jobfile, printed, exit_code>>
    /\ UNCHANGED solver_vars

\* ProcMap::init: the loop that inserts the reports in the inventory.
InitBuild ==
    /\ pc = "init_build" /\ status = "running"
    /\ IF ExpectPanics(reports)
       THEN /\ Raise("panic", [kind |-> "FailedToRetrieveSlots", arg |-> 0])
            /\ UNCHANGED <<nodes, pc>>
       ELSE /\ nodes' \in HashOrders(ProcMap_build(reports))
            /\ pc' = "init_return"
            /\ UNCHANGED <<status, err>>
    /\ UNCHANGED <<jobs, args, environ, topology, srun, reports, jobfile, launched, printed, exit_code>>
    /\ UNCHANGED solver_vars

\* ProcMap::init returns Ok(ret) (its `jobs` is dropped), and `if args.job.is_none()`.
InitReturn ==
    /\ pc = "init_return" /\ status = "running"
    /\ reports' = <<>>
    /\ IF args.job
       THEN pc' = "load" /\ UNCHANGED exit_code
       ELSE pc' = "exit" /\ exit_code' = 0
    /\ UNCHANGED <<nodes, jobs, status, err, args, environ, topology, srun, jobfile, launched, printed>>
    /\ UNCHANGED solver_vars

\* JobList::load(args.job.unwrap())? on what the job file holds when it is read,
\* then pmap.map(&mut jobs) is entered.
MainLoad ==
    /\ pc = "load" /\ status = "running"
    /\ \E jf \in JobFiles :
          /\ jobfile' = jf
          /\ LET r == load(jf)
             IN  IF r.ok
                 THEN /\ jobs' = r.jobs
                      /\ pc' = "each_next"
                      /\ UNCHANGED <<status, err>>
                 ELSE /\ Raise("error", r.err)
                      /\ UNCHANGED <<jobs, pc>>
    /\ UNCHANGED <<nodes, args, environ, topology, srun, reports, launched, printed, exit_code>>
    /\ UNCHANGED solver_vars

\* After pmap.to_slurm(...)?: srun --multi-prog is spawned and waited for; the
\* ExitStatus that wait returns is dropped and main returns Ok(()).
MainLaunch ==
    /\ pc = "emitted" /\ status = "ok"
    /\ IF file.written
       THEN /\ launched' = Append(launched, "multi-prog")
            /\ \E st \in ExitStatuses : srun' = [srun EXCEPT !.launch_status = st]
            /\ pc' = "exit"
            /\ exit_code' = 0
            /\ UNCHANGED <<status, err>>
       ELSE /\ Raise("error", [kind |-> "NoSuchJob", arg |-> 0])
            /\ UNCHANGED <<pc, launched, srun, exit_code>>
    /\ UNCHANGED <<nodes, jobs, args, environ, topology, reports, jobfile, printed>>
    /\ UNCHANGED solver_vars

\* main returns Err (exit code 1) or a panic unwinds it (exit code 101).
MainFail ==
    /\ status \in {"error", "panic"} /\ exit_code = NotExited
    /\ exit_code' = IF status = "panic" THEN 101 ELSE 1
    /\ UNCHANGED <<nodes, jobs, pc, status, err, args, environ, topology, srun, reports, jobfile,
                   launched, printed>>
    /\ UNCHANGED solver_vars

NextMain ==
    \/ MainProbe
    \/ MainWhich
    \/ Discovery
    \/ InitBuild
    \/ InitReturn
    \/ MainLoad
    \/ Next
    \/ MainLaunch
    \/ MainFail

\* The whole program, from the entry of main to its exit.
SpecMain == InitMain /\ [][NextMain]_vars

\* ------------------------------------------- from the probe to the slot
\* ProcMap::discovery of a launcher whose srun ran that probe as its only process:
\* the line it reads on the standard output of srun is the line the probe printed.
ProbeRead ==
    /\ pc = "exit" /\ status = "running" /\ args.map /\ exit_code = 0
    /\ launched' = Append(launched, "discovery")
    /\ args' = [args EXCEPT !.map = FALSE]
    /\ exit_code' = NotExited
    /\ reports' = discovery(<<[json |-> TRUE, desc |-> printed]>>)
    /\ pc' = "init_build"
    /\ UNCHANGED <<nodes, jobs, status, err, environ, topology, srun, jobfile, printed>>
    /\ UNCHANGED solver_vars

InitRank == InitMain /\ args.map

NextRank ==
    \/ MainProbe
    \/ ProbeRead
    \/ InitBuild
    \/ InitReturn
    \/ MainFail

\* A probe and the ProcMap::init that reads its report.
SpecRank == InitRank /\ [][NextRank]_vars

\* ================================================================ claims
\* What the claims speak of.
SlotPaths(ns) ==
    UNION {UNION {{<<i, k, s>> : s \in 1..Len(ns[i].numas[k].slots)} :
                    k \in 1..Len(ns[i].numas)} : i \in 1..Len(ns)}

JobIds(js) == {job_id(i) : i \in 1..Len(js)}

CountJob(ns, k) == Cardinality({p \in SlotPaths(ns) : SlotAt(ns, p).job = k})

\* The slots of the container at path c (a node <<i>>, a NUMA <<i, k>>, a slot <<i, k, s>>).
SlotsIn(ns, c) == {p \in SlotPaths(ns) : SubSeq(p, 1, Len(c)) = c}

HasFree(ns, c) == \E p \in SlotsIn(ns, c) : Slot_is_free(SlotAt(ns, p))

CountIn(ns, c, k) == Cardinality({p \in SlotsIn(ns, c) : SlotAt(ns, p).job = k})

InWalk == pc \in {"walk_pass", "walk_acquire", "walk_slot"}

\* The phase of ProcMap::map the program is in (or stopped in).
InPhase1 == pc \in {"each_next", "each_acquire"}
InPhase2 == pc = "fixed_next" \/ (InWalk /\ ret = "fixed_next")
InPhase3 == ~InPhase1 /\ ~InPhase2

\* The phase-2 allocation of job i has not begun / has returned Ok.
NotBegun2(i) == InPhase1 \/ (InPhase2 /\ cur < i)

Returned2(i) ==
    \/ InPhase3
    \/ InPhase2 /\ cur > i
    \/ pc = "fixed_next" /\ cur = i /\ status = "running"

\* ---------------------------------------------------------------- C1
\* C1: in every state of a run of the solver each slot's job is unset or the
\* zero-based index of a job of the JobList, Slot.acquire fails on every assigned
\* slot, and no step changes or frees the job of an assigned slot.
C1_ValidOrUnset ==
    \A p \in SlotPaths(nodes) :
        SlotAt(nodes, p).job = NoJob \/ SlotAt(nodes, p).job \in JobIds(jobs)

C1_AcquireOnAssignedFails ==
    \A p \in SlotPaths(nodes) : \A k \in JobIds(jobs) :
        ~Slot_is_free(SlotAt(nodes, p)) =>
            /\ ~Slot_acquire(SlotAt(nodes, p), k).ok
            /\ Slot_acquire(SlotAt(nodes, p), k).slot = SlotAt(nodes, p)

C1_Permanent ==
    \A p \in SlotPaths(nodes) :
        SlotAt(nodes, p).job # NoJob => SlotAt(nodes', p).job = SlotAt(nodes, p).job

C1_UniquePermanentAssignment ==
    /\ [](C1_ValidOrUnset /\ C1_AcquireOnAssignedFails)
    /\ [][C1_Permanent]_vars

\* An "E" job at slot locality met a slot an earlier job holds: acquire failed.
C1_Witness ==
    /\ status = "error"
    /\ pc = "each_acquire"
    /\ err.kind = "JobAlreadyTaken"
    /\ \E p \in SlotPaths(nodes) : SlotAt(nodes, p).job \in JobIds(jobs)

\* ---------------------------------------------------------------- C2
\* C2: with no "A" job in the JobList (K = 0), once phases 1 and 2 have succeeded
\* phase 3 does nothing: the solver neither crashes nor fails.
C2_NoAllJobPhaseThreeIsNoOp ==
    (InPhase3 /\ all_jobs_count(jobs) = 0) => status \in {"running", "ok"}

\* ---------------------------------------------------------------- C3
\* C3: a fixed-count job of order N holds no slot before its phase-2 allocation
\* begins and exactly N slots once that allocation has returned Ok, and every slot
\* a phase-2 step gives to a job was free before the step.
C3_ExactlyN ==
    \A i \in 1..Len(jobs) :
        (is_fixed(jobs[i]) /\ parse_usize(jobs[i].order).ok) =>
            /\ NotBegun2(i) => CountJob(nodes, job_id(i)) = 0
            /\ Returned2(i) => CountJob(nodes, job_id(i)) = parse_usize(jobs[i].order).val

C3_TakesFreeSlots ==
    InPhase2 =>
        \A p \in SlotPaths(nodes) :
            SlotAt(nodes', p) # SlotAt(nodes, p) =>
                /\ Slot_is_free(SlotAt(nodes, p))
                /\ SlotAt(nodes', p).job = jobid

C3_PhaseTwoCount == []C3_ExactlyN /\ [][C3_TakesFreeSlots]_vars

\* A "2numa" job has returned from phase 2 with its two slots, after an earlier
\* job took slots of its own.
C3_Witness ==
    /\ pc = "all_entry"
    /\ Len(jobs) = 2
    /\ jobs[2].order = "2" /\ jobs[2].loc = "numa"
    /\ CountJob(nodes, job_id(2)) = 2
    /\ CountJob(nodes, job_id(1)) > 0

\* ---------------------------------------------------------------- C4
\* C4: once the phase-1 loop of an "E" job has ended without error, every container
\* of the job's locality holds a slot of that job; and a phase-1 acquisition on a
\* container without free slot makes the solver return an error.
Done1(i) == ~InPhase1 \/ cur > i \/ (pc = "each_next" /\ cur = i)

C4_EveryContainerServed ==
    \A i \in 1..Len(jobs) :
        (is_each(jobs[i]) /\ Done1(i)) =>
            LET ts == Targets(nodes, jobs[i].loc)
            IN  \A t \in 1..Len(ts) : CountIn(nodes, ts[t], job_id(i)) >= 1

C4_FailsHard ==
    LET ts == Targets(nodes, jobs[cur].loc)
    IN  (/\ pc = "each_acquire" /\ status = "running"
         /\ idx <= Len(ts)
         /\ ~HasFree(nodes, ts[idx]))
        => (status' = "error" /\ nodes' = nodes)

C4_PhaseOneTotality == []C4_EveryContainerServed /\ [][C4_FailsHard]_vars

\* Phase 1 has served an "Enuma" and an "Enode" job on at least two NUMA domains.
C4_Witness ==
    /\ pc = "all_entry"
    /\ Len(jobs) = 2
    /\ jobs[1].order = "E" /\ jobs[1].loc = "numa"
    /\ jobs[2].order = "E" /\ jobs[2].loc = "node"
    /\ Len(each_numa(nodes)) >= 2
    /\ Len(nodes) = 2

\* ---------------------------------------------------------------- C5
\* Phase 3 past its entry (the division did not panic, so K >= 1).
AfterEntry3 == InPhase3 /\ pc # "all_entry"

AllIds(js) == {job_id(i) : i \in {k \in 1..Len(js) : is_all(js[k])}}

CountAll(ns, js) == Cardinality({p \in SlotPaths(ns) : SlotAt(ns, p).job \in AllIds(js)})

\* C5: from the entry to phase 3 on, the slots held by "A" jobs plus the free slots
\* are the free-slot count R measured at the entry; when the solver has succeeded
\* with at least one "A" job, the "A" jobs hold R slots and no slot is free.
C5_PhaseThreeConservation ==
    /\ AfterEntry3 =>
            count_free_slots(nodes) + CountAll(nodes, jobs) = remaining_slots
    /\ (status = "ok" /\ all_jobs_count(jobs) >= 1) =>
            /\ CountAll(nodes, jobs) = remaining_slots
            /\ count_free_slots(nodes) = 0

\* The solver succeeded with an "Anuma" and an "Anode" job sharing the three slots
\* that another job left free.
C5_Witness ==
    /\ status = "ok"
    /\ Len(jobs) = 3
    /\ \E i, k \in 1..3 :
          /\ i < k
          /\ is_all(jobs[i]) /\ jobs[i].loc = "numa"
          /\ is_all(jobs[k]) /\ jobs[k].loc = "node"
    /\ remaining_slots = 3
    /\ CountAll(nodes, jobs) = 3
    /\ Len(each_slot(nodes)) = 4

\* ---------------------------------------------------------------- C6
FirstAll(js) == NextJob(all_jobs(js), 0)

\* The phase-3 allocation of job i has not begun / has returned Ok.
NotBegun3(i) == ~AfterEntry3 \/ cur < i

Returned3(i) ==
    /\ AfterEntry3
    /\ \/ pc \in {"done", "emitted"}
       \/ cur > i
       \/ pc = "all_next" /\ cur = i /\ status = "running"

\* C6: with R free slots at the entry to phase 3 and K >= 1 "A" jobs, quantum is
\* R div K and rest is R - quantum * K; the first "A" job of the JobList is given
\* exactly quantum + rest slots and every later one exactly quantum, so the first
\* share is at least every other share and exceeds it by less than K.
C6_PhaseThreeShares ==
    LET K == all_jobs_count(jobs)
    IN  /\ (pc = "all_next" /\ cur = 0) => remaining_slots = count_free_slots(nodes)
        /\ AfterEntry3 =>
            /\ K >= 1
            /\ quantum = remaining_slots \div K
            /\ rest = remaining_slots - (quantum * K)
            /\ \A i \in 1..Len(jobs) :
                  is_all(jobs[i]) =>
                    /\ NotBegun3(i) => CountJob(nodes, job_id(i)) = 0
                    /\ Returned3(i) =>
                          CountJob(nodes, job_id(i)) =
                              IF i = FirstAll(jobs) THEN quantum + rest ELSE quantum
            /\ \A i, k \in 1..Len(jobs) :
                  (/\ is_all(jobs[i]) /\ is_all(jobs[k])
                   /\ i = FirstAll(jobs) /\ Returned3(i) /\ Returned3(k)) =>
                    /\ CountJob(nodes, job_id(i)) >= CountJob(nodes, job_id(k))
                    /\ CountJob(nodes, job_id(i)) - CountJob(nodes, job_id(k)) < K

\* Two "A" jobs have shared three free slots: two for the first, one for the second.
C6_Witness ==
    /\ status = "ok"
    /\ all_jobs_count(jobs) = 2
    /\ remaining_slots = 3 /\ quantum = 1 /\ rest = 1
    /\ CountJob(nodes, job_id(FirstAll(jobs))) = 2
    /\ \E k \in 1..Len(jobs) :
          k # FirstAll(jobs) /\ is_all(jobs[k]) /\ CountJob(nodes, job_id(k)) = 1

\* ---------------------------------------------------------------- C7
\* The free slots there were when the running allocation began: every slot of
\* jobid was taken by it.
FreeAtStart == count_free_slots(nodes) + CountJob(nodes, jobid)

\* The NUMA domains (resp. nodes) a job of locality lvl is spread over.
Containers(ns, lvl) == IF lvl = "node" THEN each_node(ns) ELSE each_numa(ns)

Phase2NumaNodeWalk == InPhase2 /\ pc \in {"walk_pass", "walk_acquire"}

\* C7 as claimed: in phase 2 a numa / node walk passes over a container without
\* free slot and fails only when a full pass acquires nothing, so a job of order N
\* succeeds whenever at least N slots are free when its allocation begins: it
\* fails only if fewer than N were.
C7_SucceedsWithNFree ==
    (Phase2NumaNodeWalk /\ status = "error") => FreeAtStart < size

\* C7 amended: phase 2 calls the walk with on_each = true. The walk makes passes
\* over the containers and stops once N acquisitions are made; the first acquire on
\* a container without free slot fails the job at once ("No room on ..."), and the
\* failure of a pass without acquisition only arises when there is no container.
\* So the job fails exactly when the walk reaches a full container before its N-th
\* acquisition: that container began with fewer than N / C free slots (C
\* containers), whatever the number of free slots elsewhere.
C7_FailureCases ==
    LET ts == Containers(nodes, level)
    IN  /\ Phase2NumaNodeWalk =>
              /\ on_each
              /\ number_to_alloc >= 0
              /\ CountJob(nodes, jobid) + number_to_alloc = size
        /\ (Phase2NumaNodeWalk /\ status = "error") =>
              \/ /\ err.kind = "NoRoomOn"
                 /\ idx <= Len(ts)
                 /\ ~HasFree(nodes, ts[idx])
                 /\ number_to_alloc > 0
                 /\ CountIn(nodes, ts[idx], jobid) * Len(ts) < size
              \/ /\ err.kind = "NoRoomToAllocateFixed"
                 /\ Len(ts) = 0
                 /\ number_to_alloc = size

C7_FailsAtOnce ==
    LET ts == Containers(nodes, level)
    IN  (/\ InPhase2 /\ pc = "walk_acquire" /\ status = "running"
         /\ idx <= Len(ts))
        => IF HasFree(nodes, ts[idx])
           THEN /\ status' = "running"
                /\ CountJob(nodes', jobid) = CountJob(nodes, jobid) + 1
                /\ CountIn(nodes', ts[idx], jobid) = CountIn(nodes, ts[idx], jobid) + 1
           ELSE /\ status' = "error"
                /\ nodes' = nodes

C7_PhaseTwoWalkFailsOnFullContainer == []C7_FailureCases /\ [][C7_FailsAtOnce]_vars

\* A numa / node job failed on a full container after a pass that acquired, while
\* as many slots as it still needed were free elsewhere.
C7_Witness ==
    /\ Phase2NumaNodeWalk /\ status = "error"
    /\ err.kind = "NoRoomOn"
    /\ CountJob(nodes, jobid) >= 1
    /\ count_free_slots(nodes) >= number_to_alloc

\* ---------------------------------------------------------------- C8
\* Scenario S1: one node, two NUMA domains of two slots, jobs 2slot and 2slot.
IsS1 ==
    /\ Len(nodes) = 1
    /\ Len(nodes[1].numas) = 2
    /\ Len(nodes[1].numas[1].slots) = 2
    /\ Len(nodes[1].numas[2].slots) = 2
    /\ Len(jobs) = 2
    /\ jobs[1].order = "2" /\ jobs[1].loc = "slot"
    /\ jobs[2].order = "2" /\ jobs[2].loc = "slot"

\* C8: on scenario S1 the solver succeeds, job 0 holds the first two slots of the
\* walk (ranks 0, 1) and job 1 the next two (ranks 2, 3), and the multi-program
\* file has one line per job.
C8_SlotJobsTakeFirstFree ==
    (IsS1 /\ status # "running") =>
        /\ status = "ok"
        /\ RanksOf(nodes, 0) = <<0, 1>>
        /\ RanksOf(nodes, 1) = <<2, 3>>
        /\ to_slurm(nodes, jobs).written
        /\ Cardinality(to_slurm(nodes, jobs).lines) = Len(jobs)

\* ---------------------------------------------------------------- C9
OverCommit ==
    /\ InPhase2 /\ pc = "walk_slot" /\ status = "running"
    /\ FreeAtStart < size

\* C9: a fixed-count job of slot (or no) locality that asks for N slots when fewer
\* than N are free never makes its allocation return Ok nor panic: the walk takes
\* what is free and then returns the error "Not enough slots available to allocate
\* N slots", and every error of a phase-2 slot walk is that one, citing the order
\* of the job.
C9_ErrorCitesSize ==
    (InPhase2 /\ pc = "walk_slot" /\ status = "error") =>
        /\ err.kind = "NotEnoughSlots"
        /\ err.arg = size
        /\ size = parse_usize(jobs[cur].order).val
        /\ loc_or_slot(jobs[cur]) = "slot"
        /\ count_free_slots(nodes) = 0
        /\ number_to_alloc > 0 => FreeAtStart < size

C9_NeverSucceeds ==
    OverCommit =>
        /\ pc' = "walk_slot"
        /\ status' \in {"running", "error"}
        /\ idx > Len(each_slot(nodes)) =>
              (status' = "error" /\ err' = [kind |-> "NotEnoughSlots", arg |-> size])

C9_OverCommitFails == []C9_ErrorCitesSize /\ [][C9_NeverSucceeds]_vars

\* Scenario S4: three free slots, map 5slot: the error cites 5.
C9_Witness ==
    /\ Len(each_slot(nodes)) = 3
    /\ jobs = <<[order |-> "5", loc |-> "slot", command |-> Commands[1]]>>
    /\ status = "error"
    /\ err.kind = "NotEnoughSlots" /\ err.arg = 5
    /\ CountJob(nodes, 0) = 3

\* --------------------------------------------------------------- C10
Abs(x) == IF x < 0 THEN -x ELSE x

\* C10: once the phase-2 allocation of a fixed-count job of node (resp. numa)
\* locality has returned Ok, the numbers of slots the job holds on any two nodes
\* (resp. NUMA domains) differ by at most one, and when N is the number of nodes
\* (resp. NUMA domains) it holds exactly one slot on each.
C10_RoundRobin ==
    \A i \in 1..Len(jobs) :
        (/\ is_fixed(jobs[i]) /\ jobs[i].loc \in {"node", "numa"}
         /\ parse_usize(jobs[i].order).ok
         /\ Returned2(i)) =>
            LET cs == Containers(nodes, jobs[i].loc)
                N == parse_usize(jobs[i].order).val
            IN  /\ \A a, b \in 1..Len(cs) :
                      Abs(CountIn(nodes, cs[a], job_id(i)) - CountIn(nodes, cs[b], job_id(i))) <= 1
                /\ N = Len(cs) =>
                      \A a \in 1..Len(cs) : CountIn(nodes, cs[a], job_id(i)) = 1

\* Scenario S3: two nodes of one NUMA domain of two slots, job 2node: one slot on
\* each node.
C10_Witness ==
    /\ pc = "all_entry"
    /\ Len(nodes) = 2
    /\ \A n \in 1..2 : Len(nodes[n].numas) = 1 /\ Len(nodes[n].numas[1].slots) = 2
    /\ Len(jobs) = 1
    /\ jobs[1].order = "2" /\ jobs[1].loc = "node"
    /\ CountIn(nodes, <<1>>, 0) = 1
    /\ CountIn(nodes, <<2>>, 0) = 1

\* --------------------------------------------------------------- C11
\* The lines of f in which rank r appears.
LinesWith(f, r) == {l \in f.lines : \E a \in 1..Len(l.ranks) : l.ranks[a] = r}

\* C11: for the inventory of every state of a run (one rank per slot), the
\* multi-program file to_slurm writes has exactly one line per job that holds a
\* slot and none for a job that holds none; the rank of every assigned slot is in
\* exactly one line, the one with the command of the JobEntry at the slot's job
\* index; the rank of a free slot is in no line; the ranks of a line follow the
\* walk of the inventory; and the file main emits is that one.
C11_EmitterCoverage ==
    LET f == to_slurm(nodes, jobs)
        es == each_slot(nodes)
    IN  /\ f.written
        /\ \A k \in JobIds(jobs) :
              Cardinality({l \in f.lines : l.job = k}) = IF CountJob(nodes, k) >= 1 THEN 1 ELSE 0
        /\ \A l \in f.lines : l.job \in JobIds(jobs)
        /\ \A i \in 1..Len(es) :
              LET s == SlotAt(nodes, es[i])
              IN  IF Slot_is_free(s)
                  THEN LinesWith(f, s.rank) = {}
                  ELSE /\ Cardinality(LinesWith(f, s.rank)) = 1
                       /\ \A l \in LinesWith(f, s.rank) :
                             /\ l.command = jobs[s.job + 1].command
                             /\ Cardinality({a \in 1..Len(l.ranks) : l.ranks[a] = s.rank}) = 1
        /\ \A l \in f.lines : \A a, b \in 1..Len(l.ranks) :
              a < b => \E x, y \in 1..Len(es) :
                          /\ x < y
                          /\ SlotAt(nodes, es[x]).rank = l.ranks[a]
                          /\ SlotAt(nodes, es[y]).rank = l.ranks[b]
        /\ pc = "emitted" => file = f

\* main has emitted a file of two lines, one of them with several ranks.
C11_Witness ==
    /\ pc = "emitted"
    /\ file.written
    /\ Cardinality(file.lines) = 2
    /\ \E l \in file.lines : Len(l.ranks) >= 2

\* --------------------------------------------------------------- C12
\* JobList::load has returned Ok: jobs is the JobList of the job file.
Loaded == jobfile.readable /\ pc # "load"

LocStr(l) == IF l = NoLoc THEN "" ELSE l

\* C12: for every placement string the loader accepts, the order followed by the
\* locality (or by nothing when there is none) of the JobEntry it makes is the
\* string itself: a string with characters before or after a valid ord[loc] is
\* rejected.
C12_GrammarRoundTrip ==
    Loaded =>
        \A i \in 1..Len(jobs) :
            jobs[i].order \o LocStr(jobs[i].loc) = Join(jobfile.jobs[i].map)

\* --------------------------------------------------------------- C13
\* C13: the load of a job file fails when the parsed order of one of its jobs is E
\* without locality or when the locality token of one of its jobs is none of numa,
\* slot, node; so every E job of a loaded JobList has a locality among numa, slot,
\* node, and phase 1 of the solver never meets an E job without locality (nor
\* with an unknown one).
C13_ERequiresLocality ==
    /\ jobfile.readable =>
          \A i \in 1..Len(jobfile.jobs) :
              LET r == Job_parse(jobfile.jobs[i].map)
              IN  ((r.order = "E" /\ r.loc = NoLoc) \/ r.loc \notin (Locs \cup {NoLoc})) =>
                      /\ ~r.ok
                      /\ pc = "load" /\ status = "error" /\ jobs = <<>>
    /\ Loaded =>
          \A i \in 1..Len(jobs) :
              /\ jobs[i].loc \in Locs \cup {NoLoc}
              /\ is_each(jobs[i]) => jobs[i].loc \in Locs
    /\ err.kind \notin {"Unreachable", "NoSuchLocality"}

\* The load of a job file with the placement E has failed for want of a locality.
C13_Witness ==
    /\ pc = "load" /\ status = "error"
    /\ err.kind = "ERequiresLocality"
    /\ \E i \in 1..Len(jobfile.jobs) : jobfile.jobs[i].map = <<"E">>

\* --------------------------------------------------------------- C14
\* The errors of Job::parse.
PlacementErrors == {"BadSyntax", "NoSuchLocation", "ERequiresLocality"}

\* C14: the job file is loaded and validated before discovery: when it holds an
\* invalid placement string the program fails with the configuration error
\* without having spawned the launcher.
C14_LoadBeforeDiscovery ==
    (status = "error" /\ err.kind \in PlacementErrors) => launched = <<>>

\* --------------------------------------------------------------- C15
\* C15: when discovery yields no RankReport the inventory has no node and the
\* solver fails, whatever the JobList: it never returns Ok on an empty inventory.
C15_EmptyInventoryFails ==
    status = "ok" => nodes # <<>>

\* --------------------------------------------------------------- C16
\* C16: the JobDesc the probe prints has as many PU lists as NUMA indices, and
\* its i-th PU list is the CPU set of the NUMA node whose OS index is its i-th
\* NUMA index, also when the CPU set of some NUMA node is empty.
C16_RankReportWellFormed ==
    (args.map /\ pc = "exit" /\ exit_code = 0) =>
        /\ Len(printed.pu) = Len(printed.numa)
        /\ \A i \in 1..Len(printed.numa) :
              \E n \in 1..Len(topology) :
                  /\ topology[n].os_index = printed.numa[i]
                  /\ topology[n].cpuset = printed.pu[i]

\* --------------------------------------------------------------- C17
WellFormed(reps) == \A r \in 1..Len(reps) : Len(reps[r].pu) = Len(reps[r].numa)

\* The (report, position) pairs of reps, in order.
Pairs(reps) ==
    Flatten([r \in 1..Len(reps) |-> [i \in 1..Len(reps[r].numa) |-> <<r, i>>]])

\* The slots the reports contribute to NUMA domain d of host h, in order.
ExpectedSlots(reps, h, d) ==
    LET sel == SelectSeq(Pairs(reps),
                         LAMBDA p : reps[p[1]].host = h /\ reps[p[1]].numa[p[2]] = d)
    IN  [x \in 1..Len(sel) |->
            [rank |-> as_i32(reps[sel[x][1]].rank), pu |-> reps[sel[x][1]].pu[sel[x][2]], job |-> NoJob]]

\* C17: the inventory ProcMap::init builds from well-formed reports has as many
\* slots as the reports have NUMA indices in total, all free; one node per
\* distinct host and one NUMA domain per distinct (host, NUMA index); and the
\* slots of NUMA domain (h, d) are, in the order of the reports, one slot of rank
\* report.rank and PU set pu[i] for each report of host h and each i with
\* numa[i] = d.
C17_InventoryBuild ==
    (pc = "init_return" /\ WellFormed(reports)) =>
        /\ Len(each_slot(nodes)) = SumSeq([r \in 1..Len(reports) |-> Len(reports[r].numa)])
        /\ \A p \in SlotPaths(nodes) : Slot_is_free(SlotAt(nodes, p))
        /\ {nodes[i].host : i \in 1..Len(nodes)} = {reports[r].host : r \in 1..Len(reports)}
        /\ Cardinality({nodes[i].host : i \in 1..Len(nodes)}) = Len(nodes)
        /\ \A i \in 1..Len(nodes) :
              LET numas == nodes[i].numas
                  mine == {r \in 1..Len(reports) : reports[r].host = nodes[i].host}
              IN  /\ {numas[k].id : k \in 1..Len(numas)} =
                        UNION {{reports[r].numa[j] : j \in 1..Len(reports[r].numa)} : r \in mine}
                  /\ Cardinality({numas[k].id : k \in 1..Len(numas)}) = Len(numas)
                  /\ \A k \in 1..Len(numas) :
                        numas[k].slots = ExpectedSlots(reports, nodes[i].host, numas[k].id)

\* Two reports of the same host, each with NUMA indices 0 and 1, have been inserted.
C17_Witness ==
    /\ pc = "init_return"
    /\ WellFormed(reports)
    /\ Len(reports) = 2
    /\ reports[1].host = reports[2].host
    /\ reports[1].numa = <<0, 1>>
    /\ reports[2].numa = <<0, 1>>
    /\ Len(each_slot(nodes)) = 4

\* --------------------------------------------------------------- C18
\* C18: when the srun spawned for discovery exits with a non-zero status the
\* program stops with an error instead of going on, and when the final
\* srun --multi-prog exits with a non-zero status the program does not exit 0.
C18_LauncherFailureSurfaced ==
    /\ srun.status # 0 => (status = "error" \/ pc = "init_build")
    /\ (srun.launch_status # 0 /\ pc = "exit") => exit_code # 0

\* --------------------------------------------------------------- C19
\* The phase that serves job j: 1 for "E", 2 for a fixed count, 3 for "A".
Class(j) == IF j.order = "E" THEN 1 ELSE IF j.order = "A" THEN 3 ELSE 2

PhaseNow == IF InPhase1 THEN 1 ELSE IF InPhase2 THEN 2 ELSE 3

\* The slots a step assigns.
Acquired == {p \in SlotPaths(nodes) : SlotAt(nodes', p).job # SlotAt(nodes, p).job}

\* C19: whatever the order of the JobList, every acquisition is made in the phase
\* of its job (1 for E, 2 for fixed counts, 3 for A) and for the job the loop of
\* that phase is at, when no job of a later phase and no later job of the same
\* phase holds a slot: the acquisitions of E jobs all come before those of
\* fixed-count jobs, which all come before those of A jobs, and within a phase
\* the jobs are served in JobList order.
C19_HoldersServed ==
    \A p \in SlotPaths(nodes) :
        LET h == SlotAt(nodes, p).job
        IN  h # NoJob =>
              /\ h \in JobIds(jobs)
              /\ Class(jobs[h + 1]) <= PhaseNow
              /\ Class(jobs[h + 1]) = PhaseNow => h + 1 <= cur

C19_AcquireInOrder ==
    Acquired # {} =>
        /\ cur \in 1..Len(jobs)
        /\ Class(jobs[cur]) = PhaseNow
        /\ \A p \in Acquired :
              /\ SlotAt(nodes, p).job = NoJob
              /\ SlotAt(nodes', p).job = cur - 1
        /\ \A p \in SlotPaths(nodes) :
              LET h == SlotAt(nodes, p).job
              IN  h # NoJob =>
                    \/ Class(jobs[h + 1]) < Class(jobs[cur])
                    \/ Class(jobs[h + 1]) = Class(jobs[cur]) /\ h + 1 <= cur

C19_StrictPhaseOrder == []C19_HoldersServed /\ [][C19_AcquireInOrder]_vars

\* The JobList has an A job before an E job, and both hold slots: the E job was
\* served first.
C19_Witness ==
    /\ status = "ok"
    /\ Len(jobs) = 2
    /\ is_all(jobs[1]) /\ is_each(jobs[2])
    /\ CountJob(nodes, 0) >= 1
    /\ CountJob(nodes, 1) >= 1

\* --------------------------------------------------------------- C20
\* The slots of s2 that differ from those of s1 (sequences of equal length).
Changed(s1, s2) == {i \in 1..Len(s1) : s2[i] # s1[i]}

NumaFull(numa) == \A s \in 1..Len(numa.slots) : ~Slot_is_free(numa.slots[s])

\* acquire(id) on a NUMA domain: it fails exactly when the domain has no free
\* slot, and then changes nothing; else it changes one slot only, the first free
\* one in insertion order, from free to id.
NumaAcquireOk(numa, id) ==
    LET r == Numa_acquire(numa, id)
    IN  /\ r.ok <=> ~NumaFull(numa)
        /\ ~r.ok => r.numa = numa
        /\ r.ok =>
              /\ r.numa.id = numa.id
              /\ Len(r.numa.slots) = Len(numa.slots)
              /\ \E s \in 1..Len(numa.slots) :
                    /\ Changed(numa.slots, r.numa.slots) = {s}
                    /\ Slot_is_free(numa.slots[s])
                    /\ r.numa.slots[s] = [numa.slots[s] EXCEPT !.job = id]
                    /\ \A k \in 1..(s - 1) : ~Slot_is_free(numa.slots[k])

\* acquire(id) on a node: it fails exactly when all its NUMA domains are full, and
\* then changes nothing; else it changes one slot only, from free to id.
NodeAcquireOk(node, id) ==
    LET r == Node_acquire(node, id)
    IN  /\ r.ok <=> ~(\A k \in 1..Len(node.numas) : NumaFull(node.numas[k]))
        /\ ~r.ok => r.node = node
        /\ r.ok =>
              /\ r.node.host = node.host
              /\ Len(r.node.numas) = Len(node.numas)
              /\ \E k \in 1..Len(node.numas) :
                    /\ Changed(node.numas, r.node.numas) = {k}
                    /\ r.node.numas[k].id = node.numas[k].id
                    /\ Len(r.node.numas[k].slots) = Len(node.numas[k].slots)
                    /\ \E s \in 1..Len(node.numas[k].slots) :
                          /\ Changed(node.numas[k].slots, r.node.numas[k].slots) = {s}
                          /\ Slot_is_free(node.numas[k].slots[s])
                          /\ r.node.numas[k].slots[s] = [node.numas[k].slots[s] EXCEPT !.job = id]

\* C20: on the NUMA domains and nodes of every inventory the solver goes through,
\* a successful acquire changes exactly one slot, from free to the job (for a
\* NUMA domain the first free slot in insertion order) and leaves every other
\* slot as it is; NumaDomain.acquire fails exactly when the domain has no free
\* slot, Node.acquire exactly when all its NUMA domains are full; and an acquire
\* that fails in a step of the solver leaves the whole inventory unchanged.
C20_Primitives ==
    /\ \A i \in 1..Len(nodes) : \A id \in 0..(MaxJobs - 1) :
          /\ NodeAcquireOk(nodes[i], id)
          /\ \A k \in 1..Len(nodes[i].numas) : NumaAcquireOk(nodes[i].numas[k], id)
    /\ \A p \in SlotPaths(nodes) : \A id \in 0..(MaxJobs - 1) :
          ~Slot_acquire(SlotAt(nodes, p), id).ok =>
              AcquireAt(nodes, "slot", p, id).nodes = nodes

C20_FailedStepKeepsInventory ==
    (status = "running" /\ status' = "error") => nodes' = nodes

C20_AcquisitionPrimitives == []C20_Primitives /\ [][C20_FailedStepKeepsInventory]_vars

\* An acquire on a node has failed, all its NUMA domains being full, while a slot
\* of another node is free.
C20_Witness ==
    /\ status = "error"
    /\ err.kind = "NoFreeSlotOnNode"
    /\ count_free_slots(nodes) >= 1
    /\ \E i \in 1..Len(nodes) :
          /\ Len(nodes[i].numas) >= 2
          /\ \A k \in 1..Len(nodes[i].numas) : NumaFull(nodes[i].numas[k])

\* --------------------------------------------------------------- C21
\* The inventory has been built from the report of the probe.
BuiltFromProbe == printed # NoReport /\ pc \in {"init_return", "load", "exit"} /\ ~args.map

\* C21: the rank the probe determines is PMI_RANK if it is set, else PMIX_RANK if
\* it is set, else -1; the u32 the probe prints reads back as that i32; and every
\* slot ProcMap::init builds from the report of the probe has that same signed
\* rank, for negative ranks too.
C21_RankCarried ==
    LET r == IF environ.PMI_RANK.set THEN environ.PMI_RANK.val
             ELSE IF environ.PMIX_RANK.set THEN environ.PMIX_RANK.val
             ELSE -1
    IN  /\ (printed # NoReport) =>
              /\ printed.rank.hi \in 0..(Half - 1)
              /\ printed.rank.lo \in 0..(Half - 1)
              /\ printed.rank = as_u32(r)
        /\ BuiltFromProbe =>
              /\ Len(each_slot(nodes)) = Len(printed.numa)
              /\ \A p \in SlotPaths(nodes) : SlotAt(nodes, p).rank = r

\* PMI_RANK is not set and PMIX_RANK is the least i32: two slots have been built
\* with that rank.
C21_Witness ==
    /\ BuiltFromProbe
    /\ ~environ.PMI_RANK.set
    /\ environ.PMIX_RANK = [set |-> TRUE, num |-> TRUE, val |-> MinI32]
    /\ Len(each_slot(nodes)) = 2
    /\ \A p \in SlotPaths(nodes) : SlotAt(nodes, p).rank = MinI32

\* --------------------------------------------------------------- C22
\* C22: with at least one "A" job, from the entry of phase 3 on the solver never
\* stops on an error or a panic, whatever the localities of the jobs and the
\* shape of the inventory; an allocation of phase 3 is always called with
\* on_each = false, never asks for more slots than are free and never lets the
\* counter go below zero; and phase 3 entered with no free slot ends with Ok
\* and no slot for any "A" job.
C22_PhaseThreeNeverFails ==
    (InPhase3 /\ all_jobs_count(jobs) >= 1) =>
        /\ status \in {"running", "ok"}
        /\ (InWalk /\ ret = "all_next") =>
              /\ ~on_each
              /\ number_to_alloc >= 0
              /\ number_to_alloc <= count_free_slots(nodes)
        /\ (pc \in {"done", "emitted"}) => status = "ok"
        /\ (pc \in {"done", "emitted"} /\ remaining_slots = 0) =>
              \A i \in all_jobs(jobs) : CountJob(nodes, job_id(i)) = 0

\* In a pass of a numa or node walk of phase 3, the container before the current
\* one had no room and was skipped, and slots are still to be allocated.
C22_Witness ==
    /\ pc = "walk_acquire" /\ ret = "all_next" /\ status = "running"
    /\ idx = 2
    /\ ~did_alloc
    /\ number_to_alloc >= 1
    /\ ~HasFree(nodes, Targets(nodes, level)[1])

\* --------------------------------------------------------------- C23
\* What a step of a numa or node walk does to the counter and to did_alloc.
PassProgress ==
    (status = "running" /\ pc \in {"walk_pass", "walk_acquire"}) =>
        /\ number_to_alloc' <= number_to_alloc
        /\ (did_alloc' /\ ~did_alloc) => number_to_alloc' = number_to_alloc - 1
        /\ (number_to_alloc' < number_to_alloc) => did_alloc'
        /\ (pc = "walk_pass" /\ pc' = "walk_acquire") => (~did_alloc' /\ number_to_alloc >= 1)
        /\ (pc = "walk_acquire" /\ pc' = "walk_pass") => did_alloc'
        /\ (pc = "walk_acquire" /\ idx > Len(Targets(nodes, level)) /\ ~did_alloc) =>
              (status' = "error" /\ pc' = pc)
        /\ (pc' \notin {"walk_pass", "walk_acquire"}) => number_to_alloc = 0

\* The counter of a numa or node walk stays between 0 and the requested size.
PassBound ==
    (pc \in {"walk_pass", "walk_acquire"}) => (number_to_alloc >= 0 /\ number_to_alloc <= size)

\* C23: every call of map_for_defined_size comes to its end (it returns to the
\* loop that called it, or the solver stops on an error or a panic) and the
\* solver always reaches a final outcome; in a numa or node walk the counter
\* starts at the requested size, never grows, a pass begins only with a counter
\* of at least one and is followed by another pass only after an acquisition
\* that decreased the counter, a pass without acquisition being an error: the
\* number of passes is at most the requested size.
C23_Termination ==
    /\ <>(status # "running")
    /\ []PassBound
    /\ [][PassProgress]_vars

\* A numa or node walk is beginning its second pass: the first pass made an
\* acquisition and the counter is still positive.
C23_Witness ==
    /\ pc = "walk_pass" /\ status = "running"
    /\ did_alloc
    /\ number_to_alloc >= 1
    /\ number_to_alloc < size

\* --------------------------------------------------------------- C24
\* C24: the counter number_to_alloc is never decremented at zero (no panic on the
\* subtraction, no wrapped counter), and a fixed job of size 0 never holds a
\* slot and never makes the solver stop on an error or a panic.
C24_NoCounterUnderflow ==
    /\ ~(status = "panic" /\ err.kind = "SubtractWithOverflow")
    /\ number_to_alloc >= 0
    /\ \A i \in fixed_jobs(jobs) :
          (parse_usize(jobs[i].order).ok /\ parse_usize(jobs[i].order).val = 0) =>
              /\ CountJob(nodes, job_id(i)) = 0
              /\ ~(status \in {"error", "panic"} /\ InPhase2 /\ cur = i)

====
